---- MODULE Spec2Model ----
(***************************************************************************)
(* Travel-ticket dashboard (src/streamlit_app.py).                         *)
(*                                                                         *)
(* The script is run top to bottom once per browser session and again on   *)
(* every widget change.  The only state shared between sessions is the     *)
(* st.cache_data store of load_data().  A render pass is modelled as the   *)
(* sequence of steps start -> (loader) -> sidebar -> filter -> check ->    *)
(* metrics -> charts -> tables -> done, with "stopped" after st.stop() and *)
(* "crashed" after an uncaught exception.                                  *)
(*                                                                         *)
(* Price is a float column.  A price is counted here in halves of a        *)
(* currency unit (Whole(n) = n units, Whole(n) + 1 = n.5 units), so that   *)
(* int(), the slider bounds and pd.cut act on values that need not be      *)
(* whole.  A missing value (NaN) is the string NaN.                        *)
(***************************************************************************)
EXTENDS Integers, Sequences, FiniteSets, TLC

VARIABLES
    file,          \* EDA_cleaned.csv on disk: [exists, columns, rows]
    cache,         \* st.cache_data store for load_data(): Nothing or a table
    lock,          \* holder of the cache's compute lock, or NoValue
    reads,         \* number of times pd.read_csv has read the file
    pc,            \* per session: position of the script run
    df,            \* per session: the module-level df of the current run
    filter_state,  \* per session: the widgets' values (session state)
    df_selection,  \* per session: the filtered view of the current run
    output,        \* per session: what the current run has emitted
    error          \* per session: the exception that ended the run, or NoValue

vars == <<file, cache, lock, reads, pc, df, filter_state, df_selection, output, error>>

-----------------------------------------------------------------------------
(* Bounds of the model *)

\* longest table drawn from the record pool
MaxRows == 2
\* largest number of controls a session holds away from their defaults
MaxChanged == 2
\* longest table drawn from the price-breakpoint records
MaxLoadRows == 2
\* plain reruns (no widget change) stop once the file has been read this often
MaxReads == 2
\* longest run of rows put in front of the fixed routes block
MaxLead == 2

-----------------------------------------------------------------------------
(* Values *)

NoValue == "None"
\* a table, a filter state or an output that is not there
Nothing == [none |-> TRUE]
NaN == "nan"

Sessions == {"s1", "s2"}

\* columns of the CSV the script touches
RawColumns ==
    {"Vehicle", "TripReason", "Domestic", "Cancel", "Price", "CouponDiscount",
     "Male", "From", "To", "Created", "DepartureTime"}

DerivedColumns == {"DaysUntilDeparture", "PriceCategory", "Gender"}

\* n whole currency units, counted in halves
Whole(n) == 2 * n

\* int(x): truncation toward zero of a price counted in halves
IntOf(p) == IF p >= 0 THEN p \div 2 ELSE -((-p) \div 2)

-----------------------------------------------------------------------------
(* load_data: the derived columns *)

\* (DepartureTime - Created).dt.days ; times are counted in hours, .days floors
DaysUntilDepartureOf(r) == (r.DepartureTime - r.Created) \div 24

\* pd.cut with right=False: each bin closed on the left and open on the right
PriceCategoryStrictLeft(p) ==
    IF p >= Whole(0) /\ p < Whole(1000000) THEN "<1M"
    ELSE IF p >= Whole(1000000) /\ p < Whole(5000000) THEN "1M-5M"
    ELSE IF p >= Whole(5000000) /\ p < Whole(10000000) THEN "5M-10M"
    ELSE IF p >= Whole(10000000) THEN ">10M"
    ELSE NaN

\* pd.cut(Price, bins=[0, 1e6, 5e6, 1e7, inf], labels=[...]) with the default
\* right=True: each bin is open on the left and closed on the right, a value
\* outside every bin is NaN
PriceCategoryOf(p) ==
    IF p > Whole(0) /\ p <= Whole(1000000) THEN "<1M"
    ELSE IF p > Whole(1000000) /\ p <= Whole(5000000) THEN "1M-5M"
    ELSE IF p > Whole(5000000) /\ p <= Whole(10000000) THEN "5M-10M"
    ELSE IF p > Whole(10000000) THEN ">10M"
    ELSE NaN

\* df['Male'].map({1: 'Male', 0: 'Female'}): any other value maps to NaN
GenderOf(m) ==
    IF m = 1 THEN "Male" ELSE IF m = 0 THEN "Female" ELSE NaN

\* a row with one more column
WithColumn(r, c, v) == [k \in (DOMAIN r) \cup {c} |-> IF k = c THEN v ELSE r[k]]

Derive(r) ==
    WithColumn(
        WithColumn(
            WithColumn(r, "DaysUntilDeparture", DaysUntilDepartureOf(r)),
            "PriceCategory", PriceCategoryOf(r.Price)),
        "Gender", GenderOf(r.Male))

MapRows(rows) == [i \in 1..Len(rows) |-> Derive(rows[i])]

\* the columns load_data itself reads, in the order it reads them
LoaderColumns == <<"Created", "DepartureTime", "Price", "Male">>

Range(s) == {s[i] : i \in 1..Len(s)}

\* load_data without the read of df['Created'] failing: a partial table
load_data_lenient(f) ==
    IF ~f.exists THEN [ok |-> FALSE, error |-> "FileNotFoundError"]
    ELSE IF Range(LoaderColumns) \subseteq f.columns
         THEN [ok |-> TRUE,
               table |-> [columns |-> f.columns \cup DerivedColumns,
                          rows |-> MapRows(f.rows)]]
         ELSE [ok |-> TRUE, table |-> [columns |-> f.columns, rows |-> f.rows]]

\* the body of load_data: the table with its derived columns, or the exception
\* of the first statement that fails
load_data(f) ==
    IF ~f.exists THEN [ok |-> FALSE, error |-> "FileNotFoundError"]
    ELSE IF ~(Range(LoaderColumns) \subseteq f.columns)
         THEN [ok |-> FALSE, error |-> "KeyError"]
         ELSE [ok |-> TRUE,
               table |-> [columns |-> f.columns \cup DerivedColumns,
                          rows |-> MapRows(f.rows)]]

-----------------------------------------------------------------------------
(* Column helpers (pandas) *)

\* Series.unique(): the distinct values of a column, NaN included
Unique(t, c) == {t.rows[i][c] : i \in 1..Len(t.rows)}

Max(S) == CHOOSE x \in S : \A y \in S : y <= x
Min(S) == CHOOSE x \in S : \A y \in S : x <= y

RECURSIVE SumCol(_, _)
SumCol(rows, c) ==
    IF rows = <<>> THEN 0 ELSE Head(rows)[c] + SumCol(Tail(rows), c)

\* Series.mean() and the other divisions, kept exact as numerator and
\* denominator; den = 0 is a division by zero
Ratio(num, den) == [num |-> num, den |-> den]

Where(rows, c, v) == SelectSeq(rows, LAMBDA r : r[c] = v)

-----------------------------------------------------------------------------
(* Sidebar widgets, lines 45-90 *)

\* the columns the sidebar reads from the raw table, in script order
SidebarColumns == <<"Vehicle", "TripReason", "Domestic", "Cancel">>

\* int(df["Price"].min()), int(df["Price"].max())
min_price(t) == IntOf(Min(Unique(t, "Price")))
max_price(t) == IntOf(Max(Unique(t, "Price")))

\* the value every widget returns on a session's first run: default=... of
\* each multiselect and value=(min_price, max_price) of the slider
Defaults(t) ==
    [vehicle_types   |-> Unique(t, "Vehicle"),
     trip_reasons    |-> Unique(t, "TripReason"),
     domestic_filter |-> Unique(t, "Domestic"),
     cancel_filter   |-> Unique(t, "Cancel"),
     price_range     |-> <<min_price(t), max_price(t)>>,
     gender_filter   |-> Unique(t, "Gender")]

Controls ==
    {"vehicle_types", "trip_reasons", "domestic_filter", "cancel_filter",
     "price_range", "gender_filter"}

\* the column each multiselect takes its options from
ColumnOf(c) ==
    CASE c = "vehicle_types" -> "Vehicle"
      [] c = "trip_reasons" -> "TripReason"
      [] c = "domestic_filter" -> "Domestic"
      [] c = "cancel_filter" -> "Cancel"
      [] c = "gender_filter" -> "Gender"

\* the values a user can give a control: any subset of a multiselect's
\* options, any pair lo <= hi of slider stops between min_value and max_value
Choices(t, c) ==
    IF c = "price_range"
    THEN {p \in (min_price(t)..max_price(t)) \X (min_price(t)..max_price(t)) :
             p[1] <= p[2]}
    ELSE SUBSET Unique(t, ColumnOf(c))

\* number of controls held away from their defaults
Changed(t, fs) == Cardinality({c \in Controls : fs[c] # Defaults(t)[c]})

-----------------------------------------------------------------------------
(* Filtering, lines 92-111 *)

\* "if selected: df_selection = df_selection[df_selection[col].isin(selected)]"
\* with the emptiness test dropped
FilterIsinAlways(view, c, selected) ==
    SelectSeq(view, LAMBDA r : r[c] \in selected)

\* the same, keeping the view when the filter would leave nothing
FilterIsinKeep(view, c, selected) ==
    IF selected = {} \/ SelectSeq(view, LAMBDA r : r[c] \in selected) = <<>>
    THEN view
    ELSE SelectSeq(view, LAMBDA r : r[c] \in selected)

\* "if selected: df_selection = df_selection[df_selection[col].isin(selected)]"
\* isin matches a NaN in the column against a NaN among the selected values
FilterIsin(view, c, selected) ==
    IF selected # {}
    THEN SelectSeq(view, LAMBDA r : r[c] \in selected)
    ELSE view

\* the price filter with the upper end exclusive
FilterPriceOpen(view, range) ==
    SelectSeq(view, LAMBDA r : r.Price >= Whole(range[1]) /\ r.Price < Whole(range[2]))

\* df_selection[(Price >= price_range[0]) & (Price <= price_range[1])]
FilterPrice(view, range) ==
    SelectSeq(view, LAMBDA r : r.Price >= Whole(range[1]) /\ r.Price <= Whole(range[2]))

\* one of the six filter statements, named by the column it tests
FilterStep(view, dim, fs) ==
    CASE dim = "Vehicle" -> FilterIsin(view, "Vehicle", fs.vehicle_types)
      [] dim = "TripReason" -> FilterIsin(view, "TripReason", fs.trip_reasons)
      [] dim = "Domestic" -> FilterIsin(view, "Domestic", fs.domestic_filter)
      [] dim = "Cancel" -> FilterIsin(view, "Cancel", fs.cancel_filter)
      [] dim = "Gender" -> FilterIsin(view, "Gender", fs.gender_filter)
      [] dim = "Price" -> FilterPrice(view, fs.price_range)

\* the order in which the script applies them
ProgramOrder == <<"Vehicle", "TripReason", "Domestic", "Cancel", "Gender", "Price">>

RECURSIVE ApplyInOrder(_, _, _)
ApplyInOrder(view, order, fs) ==
    IF order = <<>> THEN view
    ELSE ApplyInOrder(FilterStep(view, Head(order), fs), Tail(order), fs)

\* df.copy() followed by the filter statements in script order
ApplyFilters(t, fs) == ApplyInOrder(t.rows, ProgramOrder, fs)

-----------------------------------------------------------------------------
(* Metrics, charts and tables, lines 118-215 *)

\* the four metric tiles
MetricsOf(view) ==
    [total_tickets     |-> Len(view),
     avg_price         |-> Ratio(SumCol(view, "Price"), Whole(Len(view))),
     cancellation_rate |-> Ratio(SumCol(view, "Cancel") * 100, Len(view)),
     avg_discount      |-> Ratio(SumCol(view, "CouponDiscount"), Len(view))]

Keys(view, c) == {view[i][c] : i \in 1..Len(view)}

\* Series.value_counts(): NaN is not counted
ValueCounts(view, c) ==
    [k \in Keys(view, c) \ {NaN} |-> Len(Where(view, c, k))]

\* groupby(c)[v].mean(): groups of the values present, NaN keys dropped
GroupMean(view, c, v) ==
    [k \in Keys(view, c) \ {NaN} |->
        Ratio(SumCol(Where(view, c, k), v), Len(Where(view, c, k)))]

\* the bar series of the chart panel; the price histogram is kept as the
\* number of records it bins
ChartsOf(view) ==
    [vehicle_counts    |-> ValueCounts(view, "Vehicle"),
     avg_price_vehicle |-> GroupMean(view, "Vehicle", "Price"),
     avg_price_reason  |-> GroupMean(view, "TripReason", "Price"),
     cancel_by_vehicle |-> GroupMean(view, "Vehicle", "Cancel"),
     gender_counts     |-> ValueCounts(view, "Gender"),
     avg_days          |-> GroupMean(view, "Vehicle", "DaysUntilDeparture"),
     price_histogram   |-> Len(view)]

\* the per-Vehicle rollup: count and mean of Price, mean of Cancel and of
\* DaysUntilDeparture (the median of Price is not modelled)
SummaryOf(view) ==
    [k \in Keys(view, "Vehicle") \ {NaN} |->
        [count     |-> Len(Where(view, "Vehicle", k)),
         price     |-> GroupMean(view, "Vehicle", "Price")[k],
         cancel    |-> GroupMean(view, "Vehicle", "Cancel")[k],
         days      |-> GroupMean(view, "Vehicle", "DaysUntilDeparture")[k]]]

RouteOf(r) == <<r.From, r.To>>

\* groupby(['From', 'To']).size(): the number of records of each route present
RouteSize(view) ==
    [k \in {RouteOf(view[i]) : i \in 1..Len(view)} |->
        Cardinality({i \in 1..Len(view) : RouteOf(view[i]) = k})]

\* the orders of the routes in `left` a sort by count can produce, `up` for
\* ascending: sort_values uses kind='quicksort', which is not stable, so
\* routes of equal count come out in any order
RECURSIVE SortOrders(_, _, _)
SortOrders(size, left, up) ==
    IF left = {} THEN {<<>>}
    ELSE LET first == {k \in left : \A j \in left :
                          IF up THEN size[k] <= size[j] ELSE size[k] >= size[j]}
         IN  UNION {{<<[route |-> k, count |-> size[k]]>> \o rest :
                        rest \in SortOrders(size, left \ {k}, up)} : k \in first}

\* sort_values() with its default ascending=True
sort_values_ascending(size) == SortOrders(size, DOMAIN size, TRUE)

\* .sort_values(ascending=False)
sort_values_descending(size) == SortOrders(size, DOMAIN size, FALSE)

HeadN == 10

\* .head(10)
HeadOf(s) == SubSeq(s, 1, IF Len(s) < HeadN THEN Len(s) ELSE HeadN)

\* the values route_counts can take
TopRoutes(view) == {HeadOf(o) : o \in sort_values_descending(RouteSize(view))}

-----------------------------------------------------------------------------
(* The cached loader: @st.cache_data around load_data, called at line 36 *)

NoOutput ==
    [warning |-> FALSE, metrics |-> Nothing, charts |-> Nothing,
     summary_table |-> Nothing, route_counts |-> <<>>, raw |-> <<>>]

\* df = load_data(): the lookup made without the lock.  A hit returns the
\* stored table, a miss goes on to take the compute lock.
CallLoader(s) ==
    /\ pc[s] = "start"
    /\ IF cache # Nothing
       THEN /\ df' = [df EXCEPT ![s] = cache]
            /\ pc' = [pc EXCEPT ![s] = "sidebar"]
       ELSE /\ pc' = [pc EXCEPT ![s] = "lock"]
            /\ UNCHANGED df
    /\ UNCHANGED <<file, cache, lock, reads, filter_state, df_selection, output, error>>

\* taking the compute lock without waiting for its holder
AcquireLockShared(s) ==
    /\ pc[s] = "lock"
    /\ lock' = s
    /\ pc' = [pc EXCEPT ![s] = "locked"]
    /\ UNCHANGED <<file, cache, reads, df, filter_state, df_selection, output, error>>

\* the compute lock of the cache entry: one holder at a time
AcquireLock(s) ==
    /\ pc[s] = "lock"
    /\ lock = NoValue
    /\ lock' = s
    /\ pc' = [pc EXCEPT ![s] = "locked"]
    /\ UNCHANGED <<file, cache, reads, df, filter_state, df_selection, output, error>>

\* under the lock: look the entry up again and, if it is still missing, run
\* the body of load_data.  An exception leaves the lock, stores nothing and
\* ends the script run.
Compute(s) ==
    /\ pc[s] = "locked"
    /\ IF cache # Nothing
       THEN /\ df' = [df EXCEPT ![s] = cache]
            /\ lock' = NoValue
            /\ pc' = [pc EXCEPT ![s] = "sidebar"]
            /\ UNCHANGED <<reads, error>>
       ELSE /\ reads' = reads + (IF file.exists THEN 1 ELSE 0)
            /\ IF load_data(file).ok
               THEN /\ df' = [df EXCEPT ![s] = load_data(file).table]
                    /\ pc' = [pc EXCEPT ![s] = "store"]
                    /\ UNCHANGED <<lock, error>>
               ELSE /\ error' = [error EXCEPT ![s] = load_data(file).error]
                    /\ pc' = [pc EXCEPT ![s] = "crashed"]
                    /\ lock' = NoValue
                    /\ UNCHANGED df
    /\ UNCHANGED <<file, cache, filter_state, df_selection, output>>

\* still under the lock: store the result, leave the lock, return the table
StoreResult(s) ==
    /\ pc[s] = "store"
    /\ cache' = df[s]
    /\ lock' = NoValue
    /\ pc' = [pc EXCEPT ![s] = "sidebar"]
    /\ UNCHANGED <<file, reads, df, filter_state, df_selection, output, error>>

-----------------------------------------------------------------------------
(* The render pass, lines 38-218 *)

\* lines 45-90: the widgets read df["Vehicle"], df["TripReason"], df["Domestic"],
\* df["Cancel"], the minimum and maximum of df["Price"] (int() of NaN on an
\* empty table raises ValueError) and df["Gender"]; each widget returns its
\* default on the session's first run and the session's value afterwards
Sidebar(s) ==
    /\ pc[s] = "sidebar"
    /\ IF ~(Range(SidebarColumns) \subseteq df[s].columns)
       THEN /\ error' = [error EXCEPT ![s] = "KeyError"]
            /\ pc' = [pc EXCEPT ![s] = "crashed"]
            /\ UNCHANGED filter_state
       ELSE IF df[s].rows = <<>>
       THEN /\ error' = [error EXCEPT ![s] = "ValueError"]
            /\ pc' = [pc EXCEPT ![s] = "crashed"]
            /\ UNCHANGED filter_state
       ELSE /\ filter_state' =
                 [filter_state EXCEPT ![s] =
                     IF @ = Nothing THEN Defaults(df[s]) ELSE @]
            /\ pc' = [pc EXCEPT ![s] = "filter"]
            /\ UNCHANGED error
    /\ UNCHANGED <<file, cache, lock, reads, df, df_selection, output>>

\* the filter statements written onto df itself
FilterInPlace(s) ==
    /\ pc[s] = "filter"
    /\ df_selection' = [df_selection EXCEPT ![s] = ApplyFilters(df[s], filter_state[s])]
    /\ df' = [df EXCEPT ![s] = [@ EXCEPT !.rows = ApplyFilters(df[s], filter_state[s])]]
    /\ pc' = [pc EXCEPT ![s] = "check"]
    /\ UNCHANGED <<file, cache, lock, reads, filter_state, output, error>>

\* lines 92-111: df_selection is a copy of df narrowed by each filter; every
\* statement binds df_selection to a new frame
Filter(s) ==
    /\ pc[s] = "filter"
    /\ df_selection' = [df_selection EXCEPT ![s] = ApplyFilters(df[s], filter_state[s])]
    /\ pc' = [pc EXCEPT ![s] = "check"]
    /\ UNCHANGED <<file, cache, lock, reads, df, filter_state, output, error>>

\* the emptiness test with st.stop() left out
EmptyCheckNoStop(s) ==
    /\ pc[s] = "check"
    /\ output' = [output EXCEPT ![s].warning = (df_selection[s] = <<>>)]
    /\ pc' = [pc EXCEPT ![s] = "metrics"]
    /\ UNCHANGED <<file, cache, lock, reads, df, filter_state, df_selection, error>>

\* lines 113-116: an empty view emits the warning and st.stop() ends the run
EmptyCheck(s) ==
    /\ pc[s] = "check"
    /\ IF df_selection[s] = <<>>
       THEN /\ output' = [output EXCEPT ![s].warning = TRUE]
            /\ pc' = [pc EXCEPT ![s] = "stopped"]
       ELSE /\ pc' = [pc EXCEPT ![s] = "metrics"]
            /\ UNCHANGED output
    /\ UNCHANGED <<file, cache, lock, reads, df, filter_state, df_selection, error>>

\* lines 118-140; CouponDiscount is first read here
Metrics(s) ==
    /\ pc[s] = "metrics"
    /\ IF "CouponDiscount" \in df[s].columns
       THEN /\ output' = [output EXCEPT ![s].metrics = MetricsOf(df_selection[s])]
            /\ pc' = [pc EXCEPT ![s] = "charts"]
            /\ UNCHANGED error
       ELSE /\ error' = [error EXCEPT ![s] = "KeyError"]
            /\ pc' = [pc EXCEPT ![s] = "crashed"]
            /\ UNCHANGED output
    /\ UNCHANGED <<file, cache, lock, reads, df, filter_state, df_selection>>

\* lines 142-193
Charts(s) ==
    /\ pc[s] = "charts"
    /\ output' = [output EXCEPT ![s].charts = ChartsOf(df_selection[s])]
    /\ pc' = [pc EXCEPT ![s] = "tables"]
    /\ UNCHANGED <<file, cache, lock, reads, df, filter_state, df_selection, error>>

\* lines 195-218: the summary table, the top routes and the raw data; From
\* and To are first read here
Tables(s) ==
    /\ pc[s] = "tables"
    /\ IF {"From", "To"} \subseteq df[s].columns
       THEN /\ \E top \in TopRoutes(df_selection[s]) :
                 output' = [output EXCEPT
                               ![s].summary_table = SummaryOf(df_selection[s]),
                               ![s].route_counts = top,
                               ![s].raw = df_selection[s]]
            /\ pc' = [pc EXCEPT ![s] = "done"]
            /\ UNCHANGED error
       ELSE /\ error' = [error EXCEPT ![s] = "KeyError"]
            /\ pc' = [pc EXCEPT ![s] = "crashed"]
            /\ UNCHANGED output
    /\ UNCHANGED <<file, cache, lock, reads, df, filter_state, df_selection>>

\* the state of a session whose script is about to run again
Restart(s) ==
    /\ pc' = [pc EXCEPT ![s] = "start"]
    /\ df' = [df EXCEPT ![s] = Nothing]
    /\ df_selection' = [df_selection EXCEPT ![s] = <<>>]
    /\ output' = [output EXCEPT ![s] = NoOutput]
    /\ error' = [error EXCEPT ![s] = NoValue]

\* the user gives one control a new value: the session keeps it and the
\* script runs again from the top
WidgetChange(s) ==
    /\ pc[s] \in {"done", "stopped"}
    /\ \E c \in Controls : \E v \in Choices(df[s], c) :
          /\ v # filter_state[s][c]
          /\ Changed(df[s], [filter_state[s] EXCEPT ![c] = v]) <= MaxChanged
          /\ filter_state' = [filter_state EXCEPT ![s][c] = v]
    /\ Restart(s)
    /\ UNCHANGED <<file, cache, lock, reads>>

\* the user reruns the page without touching a control
Rerun(s) ==
    /\ pc[s] \in {"done", "stopped", "crashed"}
    /\ reads < MaxReads
    /\ Restart(s)
    /\ UNCHANGED <<file, cache, lock, reads, filter_state>>

-----------------------------------------------------------------------------
(* The tables the program is run on *)

Row(v, t, d, c, m, p, from, to, created, departure, coupon) ==
    [Vehicle |-> v, TripReason |-> t, Domestic |-> d, Cancel |-> c, Male |-> m,
     Price |-> p, From |-> from, To |-> to, Created |-> created,
     DepartureTime |-> departure, CouponDiscount |-> coupon]

\* three tickets: prices 1, 2.5 and 3; one departure before its creation;
\* one Male value that is neither 0 nor 1
Pool ==
    {Row("Bus", "Work", 1, 0, 1, Whole(1), "THR", "MHD", 0, 30, 0),
     Row("Plane", "Int", 0, 1, 0, Whole(2) + 1, "THR", "IST", 10, 5, 1),
     Row("Bus", "Int", 1, 0, 2, Whole(3), "MHD", "THR", 0, 48, 0)}

\* tickets priced at and next to the breakpoints of the price categories,
\* each as a bus and as a plane ticket
BreakPrices ==
    {Whole(0), Whole(999999), Whole(1000000), Whole(10000001), Whole(1) + 1}

BreakPool ==
    {Row("Bus", "Work", 1, 0, 1, p, "THR", "MHD", 0, 30, 0) : p \in BreakPrices}
    \cup
    {Row("Plane", "Int", 0, 1, 0, p, "THR", "IST", 10, 5, 1) : p \in BreakPrices}

SeqsUpTo(S, n) == UNION {[1..k -> S] : k \in 0..n}

FullFile(rows) == [exists |-> TRUE, columns |-> RawColumns, rows |-> rows]

\* a CSV without column c
Without(rows, c) ==
    [exists |-> TRUE, columns |-> RawColumns \ {c},
     rows |-> [i \in 1..Len(rows) |-> [k \in RawColumns \ {c} |-> rows[i][k]]]]

MissingFile == [exists |-> FALSE, columns |-> {}, rows |-> <<>>]

PoolFiles == {FullFile(rows) : rows \in SeqsUpTo(Pool, MaxRows) \ {<<>>}}

LoadFiles ==
    {MissingFile}
    \cup {Without(<<r>>, c) : r \in Pool, c \in RawColumns}
    \cup {FullFile(rows) : rows \in SeqsUpTo(BreakPool, MaxLoadRows)}

\* n tickets of one route
RECURSIVE Repeat(_, _)
Repeat(r, n) == IF n = 0 THEN <<>> ELSE <<r>> \o Repeat(r, n - 1)

RECURSIVE Block(_)
\* route i of the block is sold i times
Block(i) ==
    IF i = 0 THEN <<>>
    ELSE Block(i - 1) \o
         Repeat(Row("Plane", "Int", 1, 0, 1, Whole(1), "B", i, 0, 30, 0), i)

BlockRoutes == 9

LeadPool ==
    {Row("Bus", "Work", 1, 0, 1, Whole(1), "Z", i, 0, 30, 0) : i \in 1..3}

\* tables of more than ten routes: a few tickets, whose routes sort after
\* those of the block, followed by the block
RouteFiles ==
    {FullFile(lead \o Block(BlockRoutes)) : lead \in SeqsUpTo(LeadPool, MaxLead)}

-----------------------------------------------------------------------------
(* Specifications *)

InitWith(files, active) ==
    /\ file \in files
    /\ cache = Nothing
    /\ lock = NoValue
    /\ reads = 0
    /\ pc = [s \in Sessions |-> IF s \in active THEN "start" ELSE "idle"]
    /\ df = [s \in Sessions |-> Nothing]
    /\ filter_state = [s \in Sessions |-> Nothing]
    /\ df_selection = [s \in Sessions |-> <<>>]
    /\ output = [s \in Sessions |-> NoOutput]
    /\ error = [s \in Sessions |-> NoValue]

\* one browser session on a well-formed file, changing its filters
Init == InitWith(PoolFiles, {"s1"})

Pass(s) ==
    \/ CallLoader(s)
    \/ AcquireLock(s)
    \/ Compute(s)
    \/ StoreResult(s)
    \/ Sidebar(s)
    \/ Filter(s)
    \/ EmptyCheck(s)
    \/ Metrics(s)
    \/ Charts(s)
    \/ Tables(s)

Next == \E s \in Sessions : Pass(s) \/ WidgetChange(s)

Spec == Init /\ [][Next]_vars

\* two overlapping sessions on any file, rerunning the page
InitLoad == InitWith(LoadFiles, Sessions)

NextLoad == \E s \in Sessions : Pass(s) \/ Rerun(s)

SpecLoad == InitLoad /\ [][NextLoad]_vars

\* one session on a table of more than ten routes
InitRoutes == InitWith(RouteFiles, {"s1"})

SpecRoutes == InitRoutes /\ [][Next]_vars

-----------------------------------------------------------------------------
(* Properties *)

\* the script run of s has executed the filter statements
Filtered(s) == pc[s] \in {"check", "metrics", "charts", "tables", "done", "stopped"}

\* the table load_data builds from the file
Loaded == load_data(file).table

\* record r passes every filter of state fs
Matches(r, fs) ==
    /\ fs.vehicle_types # {} => r.Vehicle \in fs.vehicle_types
    /\ fs.trip_reasons # {} => r.TripReason \in fs.trip_reasons
    /\ fs.domestic_filter # {} => r.Domestic \in fs.domestic_filter
    /\ fs.cancel_filter # {} => r.Cancel \in fs.cancel_filter
    /\ fs.gender_filter # {} => r.Gender \in fs.gender_filter
    /\ Whole(fs.price_range[1]) <= r.Price
    /\ r.Price <= Whole(fs.price_range[2])

\* C1: the filtered view is the subsequence, in table order, of the records
\* whose value is in every non-empty selected set and whose Price lies in
\* [lo, hi], both ends included.
C1_FilteredView ==
    \A s \in Sessions :
        Filtered(s) =>
            df_selection[s] =
                SelectSeq(df[s].rows, LAMBDA r : Matches(r, filter_state[s]))

\* C1 witness: a categorical filter is active, it removes some but not all
\* records, and a kept record is priced exactly at the upper end of the range.
C1_Witness ==
    /\ pc["s1"] = "check"
    /\ filter_state["s1"].vehicle_types = {"Bus"}
    /\ df_selection["s1"] # <<>>
    /\ Len(df_selection["s1"]) < Len(df["s1"].rows)
    /\ \E i \in 1..Len(df_selection["s1"]) :
          df_selection["s1"][i].Price = Whole(filter_state["s1"].price_range[2])

Computing(s) == pc[s] \in {"metrics", "charts", "tables", "done"}

NothingComputed(s) ==
    /\ output[s].metrics = Nothing
    /\ output[s].charts = Nothing
    /\ output[s].summary_table = Nothing
    /\ output[s].route_counts = <<>>
    /\ output[s].raw = <<>>

\* C2: once the emptiness test has run, an empty view means the warning was
\* emitted and the run stopped with no metric, chart or table computed; the
\* metric, chart and table steps only run on a view with a record, and the
\* cancellation rate divides by a count that is not zero.
C2_EmptyStops ==
    \A s \in Sessions :
        /\ pc[s] = "stopped" =>
              df_selection[s] = <<>> /\ output[s].warning /\ NothingComputed(s)
        /\ Computing(s) => df_selection[s] # <<>> /\ ~output[s].warning
        /\ output[s].metrics # Nothing =>
              /\ df_selection[s] # <<>>
              /\ output[s].metrics.cancellation_rate.den > 0
        /\ ~NothingComputed(s) => df_selection[s] # <<>>

\* C2 witness: a run that ended at the warning, after a filter change on a
\* table that has records.
C2_Witness ==
    /\ pc["s1"] = "stopped"
    /\ output["s1"].warning
    /\ df["s1"].rows # <<>>
    /\ filter_state["s1"] # Defaults(df["s1"])

\* C3: the cached table and every session's df are the table the loader
\* built from the file (records, order, derived columns), whatever filter
\* changes and render passes have happened.
C3_TableUnchanged ==
    /\ cache \in {Nothing, Loaded}
    /\ \A s \in Sessions : df[s] \in {Nothing, Loaded}

\* C3 witness: a finished pass, after a filter change, whose view is a proper
\* part of the table.
C3_Witness ==
    /\ pc["s1"] = "done"
    /\ filter_state["s1"] # Defaults(df["s1"])
    /\ Len(df_selection["s1"]) < Len(df["s1"].rows)
    /\ cache = Loaded

RequiredColumns == Range(LoaderColumns) \cup Range(SidebarColumns)

\* C5 as stated: a session only ever gets a table from the loader when the
\* file has every required column, the categorical filter columns included.
C5_LoaderChecksAllColumns ==
    \A s \in Sessions :
        df[s] # Nothing => file.exists /\ RequiredColumns \subseteq file.columns

\* C5 amended: the loader returns the whole table with the three derived
\* columns or raises; it raises when the file is missing or lacks Created,
\* DepartureTime, Price or Male.  With a categorical filter column absent the
\* loader succeeds and the run fails with KeyError at the sidebar, before any
\* view is filtered.
C5_LoadOrRaise ==
    \A s \in Sessions :
        /\ df[s] # Nothing =>
              /\ file.exists
              /\ Range(LoaderColumns) \subseteq file.columns
              /\ df[s].columns = file.columns \cup DerivedColumns
              /\ Len(df[s].rows) = Len(file.rows)
              /\ \A i \in 1..Len(df[s].rows) :
                    /\ DOMAIN df[s].rows[i] = df[s].columns
                    /\ \A c \in file.columns : df[s].rows[i][c] = file.rows[i][c]
        /\ ~(file.exists /\ Range(LoaderColumns) \subseteq file.columns) =>
              /\ df[s] = Nothing
              /\ pc[s] \in {"start", "lock", "locked", "crashed"}
              /\ pc[s] = "crashed" =>
                    error[s] = (IF file.exists THEN "KeyError" ELSE "FileNotFoundError")
        /\ ~(Range(SidebarColumns) \subseteq file.columns) =>
              /\ ~Filtered(s) /\ pc[s] # "filter"
              /\ filter_state[s] = Nothing

\* C5 witness: the loader raised on a file that lacks one of its columns.
C5_Witness ==
    /\ file.exists
    /\ "Male" \notin file.columns
    /\ pc["s1"] = "crashed"
    /\ error["s1"] = "KeyError"
    /\ df["s1"] = Nothing

CachedRows == IF cache = Nothing THEN <<>> ELSE cache.rows

\* C6 as stated: 999,999 is "<1M", 1,000,000 is "1M-5M", 10,000,001 is ">10M".
C6_LabelsAsStated ==
    \A i \in 1..Len(CachedRows) :
        /\ CachedRows[i].Price = Whole(999999) => CachedRows[i].PriceCategory = "<1M"
        /\ CachedRows[i].Price = Whole(1000000) => CachedRows[i].PriceCategory = "1M-5M"
        /\ CachedRows[i].Price = Whole(10000001) => CachedRows[i].PriceCategory = ">10M"

\* C6 amended: records of equal Price have equal PriceCategory, and 999,999
\* is "<1M", 1,000,000 is "<1M" (each bin is closed on the right),
\* 10,000,001 is ">10M".
C6_Labels ==
    /\ \A i, j \in 1..Len(CachedRows) :
          CachedRows[i].Price = CachedRows[j].Price =>
              CachedRows[i].PriceCategory = CachedRows[j].PriceCategory
    /\ \A i \in 1..Len(CachedRows) :
          /\ CachedRows[i].Price = Whole(999999) => CachedRows[i].PriceCategory = "<1M"
          /\ CachedRows[i].Price = Whole(1000000) => CachedRows[i].PriceCategory = "<1M"
          /\ CachedRows[i].Price = Whole(10000001) => CachedRows[i].PriceCategory = ">10M"

\* C6 witness: a loaded table with two records priced 1,000,000 that differ
\* in their other columns.
C6_Witness ==
    /\ Len(CachedRows) = 2
    /\ CachedRows[1].Price = Whole(1000000)
    /\ CachedRows[2].Price = Whole(1000000)
    /\ CachedRows[1].Vehicle # CachedRows[2].Vehicle


Routes(view) == {RouteOf(view[i]) : i \in 1..Len(view)}

Listed(top) == {top[i].route : i \in 1..Len(top)}

\* position of the first record of route k in the rows
FirstSeen(rows, k) == Min({i \in 1..Len(rows) : RouteOf(rows[i]) = k})

\* the part of C7 that does not depend on how ties are ordered: at most ten
\* distinct routes of the view, as many as there are up to ten, each with its
\* number of records, counts never increasing down the list, no route left
\* out that has more records than a listed one
TopTenByCount(view, top) ==
    /\ Len(top) = (IF Cardinality(Routes(view)) < HeadN
                   THEN Cardinality(Routes(view)) ELSE HeadN)
    /\ Listed(top) \subseteq Routes(view)
    /\ \A i, j \in 1..Len(top) : i # j => top[i].route # top[j].route
    /\ \A i \in 1..Len(top) : top[i].count = RouteSize(view)[top[i].route]
    /\ \A i, j \in 1..Len(top) : i < j => top[i].count >= top[j].count
    /\ \A k \in Routes(view) \ Listed(top) :
          \A i \in 1..Len(top) : RouteSize(view)[k] <= top[i].count

\* C7 as stated: the list is a top ten by count, and routes of equal count
\* are listed in the order in which they first appear in the source table.
C7_TiesInTableOrder ==
    \A s \in Sessions :
        pc[s] = "done" =>
            /\ TopTenByCount(df_selection[s], output[s].route_counts)
            /\ \A i, j \in 1..Len(output[s].route_counts) :
                  (/\ i < j
                   /\ output[s].route_counts[i].count = output[s].route_counts[j].count)
                  => FirstSeen(df[s].rows, output[s].route_counts[i].route)
                       < FirstSeen(df[s].rows, output[s].route_counts[j].route)

\* C7 amended: the list is a top ten by count; nothing is said of the order
\* of routes of equal count.
C7_TopTen ==
    \A s \in Sessions :
        pc[s] = "done" =>
            TopTenByCount(df_selection[s], output[s].route_counts)

\* C7 witness: a view of more than ten routes whose list holds two routes of
\* equal count.
C7_Witness ==
    /\ pc["s1"] = "done"
    /\ Cardinality(Routes(df_selection["s1"])) > HeadN
    /\ \E i, j \in 1..Len(output["s1"].route_counts) :
          /\ i # j
          /\ output["s1"].route_counts[i].count = output["s1"].route_counts[j].count

MultiSelects == Controls \ {"price_range"}

\* C8: with the other controls as they are, an empty selection for a
\* dimension gives the same view as the selection of all its values present
\* in the table; the view the run computed is that view whenever the
\* dimension's selection is one of the two.
C8_EmptyIsAll ==
    \A s \in Sessions :
        Filtered(s) =>
            \A c \in MultiSelects :
                LET none == [filter_state[s] EXCEPT ![c] = {}]
                    all  == [filter_state[s] EXCEPT ![c] = Unique(df[s], ColumnOf(c))]
                IN  /\ ApplyFilters(df[s], none) = ApplyFilters(df[s], all)
                    /\ filter_state[s] \in {none, all} =>
                          df_selection[s] = ApplyFilters(df[s], all)

\* C8 witness: a run with an empty selection on a dimension of two values,
\* while another control removes some but not all records.
C8_Witness ==
    /\ pc["s1"] = "check"
    /\ filter_state["s1"].trip_reasons = {}
    /\ Cardinality(Unique(df["s1"], "TripReason")) = 2
    /\ df_selection["s1"] # <<>>
    /\ Len(df_selection["s1"]) < Len(df["s1"].rows)

Dimensions == Range(ProgramOrder)

\* ViewsAfter(k, rows, fs)[D], for a set D of k filter statements: the views
\* that applying the statements of D to rows, each once, in any order, can
\* give.  An order of D ends with some d in D after an order of D \ {d}.
RECURSIVE ViewsAfter(_, _, _)
ViewsAfter(k, rows, fs) ==
    IF k = 0 THEN ({} :> {rows})
    ELSE LET before == ViewsAfter(k - 1, rows, fs)
             after  == [D \in {E \in SUBSET Dimensions : Cardinality(E) = k} |->
                           UNION {{FilterStep(v, d, fs) : v \in before[D \ {d}]} : d \in D}]
         IN  after @@ after

\* the records of the table that each filter statement alone would keep
Intersection(t, fs) ==
    SelectSeq(t.rows,
              LAMBDA r : \A d \in Dimensions : r \in Range(FilterStep(t.rows, d, fs)))

\* C9: the filter statements applied in any order give the view the run
\* computed, which is the intersection of what each one keeps.
C9_AnyOrder ==
    \A s \in Sessions :
        pc[s] = "check" =>
            /\ ViewsAfter(Cardinality(Dimensions), df[s].rows, filter_state[s])[Dimensions]
                  = {df_selection[s]}
            /\ df_selection[s] = Intersection(df[s], filter_state[s])

\* C9 witness: two filters are active that each keep a record and together
\* keep none.
C9_Witness ==
    /\ pc["s1"] = "check"
    /\ FilterStep(df["s1"].rows, "Vehicle", filter_state["s1"]) # <<>>
    /\ FilterStep(df["s1"].rows, "TripReason", filter_state["s1"]) # <<>>
    /\ Len(FilterStep(df["s1"].rows, "Vehicle", filter_state["s1"])) < Len(df["s1"].rows)
    /\ Len(FilterStep(df["s1"].rows, "TripReason", filter_state["s1"])) < Len(df["s1"].rows)
    /\ df_selection["s1"] = <<>>

\* C10: with every control at its default the filtered view is the whole
\* loaded table.
C10_DefaultKeepsAll ==
    \A s \in Sessions :
        (Filtered(s) /\ filter_state[s] = Defaults(df[s])) =>
            df_selection[s] = df[s].rows

====
